---- MODULE Spec2Model ----
(***************************************************************************)
(* kHealth notification manager (custom_components/khealth/notify.py):     *)
(* reconciliation of polled snapshots against _last_seen, and handling of  *)
(* notification action events (acknowledge POST, dismiss, error notify).   *)
(***************************************************************************)
EXTENDS Integers, Sequences, FiniteSets, TLC

\* ------------------------------------------------------------------ bounds
\* Snapshots reconciled in a traced run (SpecSnapshots).
MaxPolls == 4
\* Acknowledgment POSTs in flight at the same time.
MaxInFlight == 2
\* Acknowledgment POSTs in flight at the same time in a marked run
\* (SpecSuperseded).
MaxMarked == 1

\* ------------------------------------------------------------ data model
\* Python None, as the value of an absent id in _last_seen / new_id.
None == -1

\* for rtype in ("movement", "hydration")
RTYPES == <<"movement", "hydration">>

Types == {RTYPES[i] : i \in 1..Len(RTYPES)}

\* The reminder ids the remote service hands out in the runs checked.
Ids == {5, 7}

\* Ids that no snapshot ever carries.
UnseenIds == {42}

MESSAGES == [i \in Ids |-> IF i = 5 THEN "Air squats x 10" ELSE "Drink a glass of water"]

\* A reminder record of a poll response; the remote service fixes the message
\* of a reminder id (a reminder is immutable once observed).
Reminder(i) == [id |-> i, message |-> MESSAGES[i]]

\* An optional reminder: the empty set is None, {r} is the reminder r.
Absent == {}

OptReminders == {Absent} \cup {{Reminder(i)} : i \in Ids}

\* coordinator.data.get("active_reminders", {}): a dict that may lack a key.
ActiveDicts == UNION {[S -> OptReminders] : S \in SUBSET Types}

\* coordinator.data is None
NoData == [loaded |-> FALSE, active |-> <<>>]

\* coordinator.data after a refresh that returned the active reminders
PollData(active) == [loaded |-> TRUE, active |-> active]

\* coordinator.data when start() is called
StartData == {NoData} \cup {PollData(active) : active \in ActiveDicts}

\* active.get(rtype) with a reminder for default.
ActiveGetDefaultReminder(active, rtype) ==
    IF rtype \in DOMAIN active THEN active[rtype] ELSE {Reminder(5)}

\* active.get(rtype)
ActiveGet(active, rtype) ==
    IF rtype \in DOMAIN active THEN active[rtype] ELSE Absent

\* new_id = new_reminder["id"] if new_reminder else None
NewId(new_reminder) ==
    IF new_reminder # Absent THEN (CHOOSE r \in new_reminder : TRUE).id ELSE None

\* f"khealth-{rtype}"
Tag(rtype) == <<"khealth-", rtype>>

\* ---------------------------------------------------- action events (4.2)
\* Strings the code matches or builds are sequences of characters.
KHEALTH_ == <<"K", "H", "E", "A", "L", "T", "H", "_">>

VERB_CHARS ==
    [DONE   |-> <<"D", "O", "N", "E">>,
     SKIP   |-> <<"S", "K", "I", "P">>,
     SNOOZE |-> <<"S", "N", "O", "O", "Z", "E">>,
     ALT    |-> <<"A", "L", "T">>]

Verbs == DOMAIN VERB_CHARS

DIGITS == <<"0", "1", "2", "3", "4", "5", "6", "7", "8", "9">>

DigitChars == {DIGITS[i] : i \in 1..Len(DIGITS)}

DigitVal(c) == (CHOOSE i \in 1..Len(DIGITS) : DIGITS[i] = c) - 1

\* str(n) for n >= 0, as in f"KHEALTH_DONE_{rid}"
RECURSIVE Decimal(_)
Decimal(n) ==
    IF n < 10 THEN <<DIGITS[n + 1]>>
    ELSE Append(Decimal(n \div 10), DIGITS[(n % 10) + 1])

\* The digits read as their first digit alone.
ParseIntFirstDigit(ds) == IF ds = <<>> THEN 0 ELSE DigitVal(ds[1])

\* int(match.group(2))
RECURSIVE ParseInt(_)
ParseInt(ds) ==
    IF ds = <<>> THEN 0
    ELSE 10 * ParseInt(SubSeq(ds, 1, Len(ds) - 1)) + DigitVal(ds[Len(ds)])

\* f"KHEALTH_{verb}_{rid}"
ActionId(verb, rid) == KHEALTH_ \o VERB_CHARS[verb] \o <<"_">> \o Decimal(rid)

\* What $ leaves to (\d+): the rest of the action, less one final newline.
BeforeEnd(rest) ==
    IF rest # <<>> /\ rest[Len(rest)] = "\n"
    THEN SubSeq(rest, 1, Len(rest) - 1)
    ELSE rest

\* ACTION_PATTERN = ^KHEALTH_(DONE|SKIP|SNOOZE|ALT)_(\d+)$, matched at the start
MatchesVerb(action, verb) ==
    LET head == KHEALTH_ \o VERB_CHARS[verb] \o <<"_">>
        digits == BeforeEnd(SubSeq(action, Len(head) + 1, Len(action)))
    IN  /\ Len(action) > Len(head)
        /\ SubSeq(action, 1, Len(head)) = head
        /\ digits # <<>>
        /\ \A i \in 1..Len(digits) : digits[i] \in DigitChars

ACTION_PATTERN_match(action) ==
    IF \E verb \in Verbs : MatchesVerb(action, verb)
    THEN LET verb == CHOOSE v \in Verbs : MatchesVerb(action, v)
             head == KHEALTH_ \o VERB_CHARS[verb] \o <<"_">>
         IN  [matched |-> TRUE, group1 |-> verb,
              group2 |-> BeforeEnd(SubSeq(action, Len(head) + 1, Len(action)))]
    ELSE [matched |-> FALSE, group1 |-> "", group2 |-> <<>>]

RESPONSE_MAP ==
    [DONE |-> "done", SKIP |-> "skipped", SNOOZE |-> "snoozed", ALT |-> "alternative"]

\* Notes taking the reply text of every verb.
NotesOfAnyVerb(response_key, reply_text) == reply_text

\* notes = event.data.get("reply_text", "") only for ALT, "" otherwise
Notes(response_key, reply_text) ==
    IF response_key = "ALT" THEN reply_text ELSE ""

\* body = {"reminder_id": ..., "response": ...}, with "notes" only if notes
Body(reminder_id, response, notes) ==
    IF notes # ""
    THEN [reminder_id |-> reminder_id, response |-> response, notes |-> notes]
    ELSE [reminder_id |-> reminder_id, response |-> response]

\* The acknowledgment request _handle_action builds from a matched action.
RequestOf(m, reply_text) ==
    Body(ParseInt(m.group2), RESPONSE_MAP[m.group1], Notes(m.group1, reply_text))

\* The ways the POST can end: an HTTP status, or an exception of the session.
Statuses == {200, 409, 500}

AckOutcomes ==
    {[kind |-> "status", status |-> st] : st \in Statuses}
        \cup {[kind |-> k, status |-> 0] : k \in {"ClientError", "TimeoutError"}}

\* Conclusive with a timeout counted as an answer.
ConclusiveOnTimeout(outcome) ==
    \/ outcome.kind = "TimeoutError"
    \/ outcome.kind = "status" /\ outcome.status \in {200, 409}

\* Conclusive with 409 raising like any other status.
Conclusive200Only(outcome) == outcome.kind = "status" /\ outcome.status = 200

\* Conclusive without the test of the status: only an exception fails.
ConclusiveAnyStatus(outcome) == outcome.kind = "status"

\* 409 is only logged; any other status but 200 raises aiohttp.ClientError,
\* which the except clause catches like a transport failure.
Conclusive(outcome) ==
    outcome.kind = "status" /\ (outcome.status = 409 \/ outcome.status = 200)

\* FindType with the break outside the if: only the first type is looked at.
FindTypeBreakEarly(last_seen, reminder_id, i) ==
    IF last_seen[RTYPES[1]] = reminder_id THEN {RTYPES[1]} ELSE {}

\* FindType dismissing the loop's last type when none matches.
FindTypeLeftover(last_seen, reminder_id, i) ==
    IF \E j \in 1..Len(RTYPES) : last_seen[RTYPES[j]] = reminder_id
    THEN {RTYPES[CHOOSE j \in 1..Len(RTYPES) :
                /\ last_seen[RTYPES[j]] = reminder_id
                /\ \A k \in 1..(j - 1) : last_seen[RTYPES[k]] # reminder_id]}
    ELSE {RTYPES[Len(RTYPES)]}

\* FindType without the comparison of the ids: the first type notified.
FindTypeAnyNotified(last_seen, reminder_id, i) ==
    IF \E j \in 1..Len(RTYPES) : last_seen[RTYPES[j]] # None
    THEN {RTYPES[CHOOSE j \in 1..Len(RTYPES) :
                /\ last_seen[RTYPES[j]] # None
                /\ \A k \in 1..(j - 1) : last_seen[RTYPES[k]] = None]}
    ELSE {}

\* for rtype in (...): if self._last_seen.get(rtype) == reminder_id: ...; break
RECURSIVE FindType(_, _, _)
FindType(last_seen, reminder_id, i) ==
    IF i > Len(RTYPES) THEN {}
    ELSE IF last_seen[RTYPES[i]] = reminder_id THEN {RTYPES[i]}
    ELSE FindType(last_seen, reminder_id, i + 1)

\* The outcome of a call of the notify service.
ChannelOutcomes == {"ok", "fail"}


\* ------------------------------------------------------- outbound calls
\* The service call with the Skip button before the Done button.
SendCallSkipFirst(reminder, rtype) ==
    LET r == CHOOSE x \in reminder : TRUE
        rid == r.id
    IN  [message |-> r.message,
         title   |-> "kHealth",
         tag     |-> Tag(rtype),
         group   |-> "khealth",
         actions |-> <<[action |-> ActionId("SKIP", rid), title |-> "Skip"],
                       [action |-> ActionId("DONE", rid), title |-> "Done"],
                       [action |-> ActionId("SNOOZE", rid), title |-> "Snooze"],
                       [action |-> ActionId("ALT", rid), title |-> "Alternative...",
                        behavior |-> "textInput"]>>]

\* The service call of _send_notification.
SendCall(reminder, rtype) ==
    LET r == CHOOSE x \in reminder : TRUE
        rid == r.id
    IN  [message |-> r.message,
         title   |-> "kHealth",
         tag     |-> Tag(rtype),
         group   |-> "khealth",
         actions |-> <<[action |-> ActionId("DONE", rid), title |-> "Done"],
                       [action |-> ActionId("SKIP", rid), title |-> "Skip"],
                       [action |-> ActionId("SNOOZE", rid), title |-> "Snooze"],
                       [action |-> ActionId("ALT", rid), title |-> "Alternative...",
                        behavior |-> "textInput"]>>]

\* The service call of _dismiss_notification.
DismissCall(rtype) == [message |-> "clear_notification", tag |-> Tag(rtype)]

\* The service call of the except clause of _handle_action.
ErrorCall ==
    [message |-> "Failed to record response. Please try again.",
     title   |-> "kHealth Error"]

\* self._session.post(f"{self._api_url}/api/v1/ha/acknowledge", json=body, ...)
PostCall(body) == [url |-> "/api/v1/ha/acknowledge", json |-> body]

IsSend(c) == "actions" \in DOMAIN c

IsDismiss(c) == DOMAIN c = {"message", "tag"} /\ c.message = "clear_notification"

IsError(c) == DOMAIN c = {"message", "title"}

IsPost(c) == "json" \in DOMAIN c

\* The calls of a sequence that carry the tag of rtype.
Tagged(cs, rtype) ==
    SelectSeq(cs, LAMBDA c : "tag" \in DOMAIN c /\ c.tag = Tag(rtype))

\* The reminder id a Send names in its buttons.
SendId(c) == ParseInt(ACTION_PATTERN_match(c.actions[1].action).group2)

\* ---------------------------------------------------------------- state
VARIABLES
    phase,      \* "new" | "running" | "stopped": start() and stop() called so far
    subs,       \* _unsub_coordinator, _unsub_action and the listeners registered
    lastSeen,   \* self._last_seen, read with .get(rtype)
    acks,       \* the _handle_action invocations suspended in the POST
    superseded, \* history: per suspended invocation, the types whose snapshot
                \* replaced its id by another id since it was suspended
    out,        \* history: the outbound calls the last event issued, in order
    last,       \* history: the last event and what it started from
    hist,       \* history: per type, the id of the last Send and who dismissed since
    seen,       \* trace: per type, the ids of the snapshots reconciled
    calls,      \* trace: per type, the calls each reconciled snapshot issued
    latest,     \* history: the ids of the last snapshot reconciled, if any
    tasks,      \* the send and dismiss tasks created and not yet finished
    undelivered, \* history: the types whose last finished notify call failed
    failed      \* history: the ids whose acknowledgment has failed

vars == <<phase, subs, lastSeen, acks, superseded, out, last, hist, seen, calls,
          latest, tasks, undelivered, failed>>

\* What the runs that leave the notify calls unobserved keep.
channel == <<tasks, undelivered, failed>>

\* ------------------------------------------------------------ listeners
\* The two listeners start() registers: _on_coordinator_update on the
\* coordinator, _handle_action on the bus.
Listeners == {"coordinator", "action"}

\* After __init__: both _unsub fields None, nothing registered. unsub[l] says
\* the field holds the function that removes listener l, registered[l] counts
\* the registrations of l in force, removals[l] the calls of such a function.
NoSubs ==
    [unsub      |-> [l \in Listeners |-> FALSE],
     registered |-> [l \in Listeners |-> 0],
     removals   |-> [l \in Listeners |-> 0]]

\* The two registrations of start(), each storing the function returned.
Subscribe(s) ==
    [s EXCEPT !.unsub = [l \in Listeners |-> TRUE],
              !.registered = [l \in Listeners |-> s.registered[l] + 1]]

\* The function called whatever the field holds.
UnsubscribeUnguarded(s, l) ==
    [s EXCEPT !.unsub[l] = FALSE,
              !.registered[l] = IF @ > 0 THEN @ - 1 ELSE 0,
              !.removals[l] = @ + 1]

\* The field reset without calling the function it holds.
UnsubscribeFieldOnly(s, l) == [s EXCEPT !.unsub[l] = FALSE]

\* if self._unsub_x: self._unsub_x(); self._unsub_x = None
Unsubscribe(s, l) ==
    IF s.unsub[l]
    THEN [s EXCEPT !.unsub[l] = FALSE,
                   !.registered[l] = @ - 1,
                   !.removals[l] = @ + 1]
    ELSE s

\* Is listener l called when its event occurs.
Listening(l) == subs.registered[l] > 0

\* ------------------------------------------------- reconciliation (4.1)
\* Decide with the two tests in the other order: a changed id dismisses.
DecideDismissFirst(new_id, old_id) ==
    IF old_id # None /\ new_id # old_id THEN "dismiss"
    ELSE IF new_id # None /\ new_id # old_id THEN "send"
    ELSE "none"

\* Decide without the comparison to the old id.
DecideAlwaysSend(new_id, old_id) ==
    IF new_id # None THEN "send"
    ELSE IF new_id = None /\ old_id # None THEN "dismiss"
    ELSE "none"

\* Decide without the dismiss branch.
DecideSendOnly(new_id, old_id) ==
    IF new_id # None /\ new_id # old_id THEN "send" ELSE "none"

\* Decide dismissing whenever the reminder is absent.
DecideAlwaysDismiss(new_id, old_id) ==
    IF new_id # None /\ new_id # old_id THEN "send"
    ELSE IF new_id = None THEN "dismiss"
    ELSE "none"

\* The branch _on_coordinator_update takes for one type.
Decide(new_id, old_id) ==
    IF new_id # None /\ new_id # old_id THEN "send"
    ELSE IF new_id = None /\ old_id # None THEN "dismiss"
    ELSE "none"

\* The iteration comparing the new id of every type with the old id of the
\* first type.
CreatedTasksFirstOld(active, old, rtype) ==
    LET new_reminder == ActiveGet(active, rtype)
        d == Decide(NewId(new_reminder), old[RTYPES[1]])
    IN  IF d = "send" THEN <<SendCall(new_reminder, rtype)>>
        ELSE IF d = "dismiss" THEN <<DismissCall(rtype)>>
        ELSE <<>>

\* The tasks one iteration of the loop creates for rtype with
\* hass.async_create_task, as the service calls they make; a failure of the
\* call is caught and logged inside the task.
CreatedTasks(active, old, rtype) ==
    LET new_reminder == ActiveGet(active, rtype)
        d == Decide(NewId(new_reminder), old[rtype])
    IN  IF d = "send" THEN <<SendCall(new_reminder, rtype)>>
        ELSE IF d = "dismiss" THEN <<DismissCall(rtype)>>
        ELSE <<>>

\* The write left out.
LastSeenWriteSkipped(active, old, rtype) == old

\* The write made in the send branch only.
LastSeenWriteOnSend(active, old, rtype) ==
    IF NewId(ActiveGet(active, rtype)) # None
    THEN [old EXCEPT ![rtype] = NewId(ActiveGet(active, rtype))]
    ELSE old

\* self._last_seen[rtype] = new_id, at the end of every iteration
LastSeenWrite(active, old, rtype) ==
    [old EXCEPT ![rtype] = NewId(ActiveGet(active, rtype))]

\* The loop deciding for every type and losing its writes.
RECURSIVE UpdateLoopWriteLost(_, _, _)
UpdateLoopWriteLost(active, old, i) ==
    IF i > Len(RTYPES) THEN [created |-> <<>>, last_seen |-> old]
    ELSE [created   |-> CreatedTasks(active, old, RTYPES[i])
                            \o UpdateLoopWriteLost(active, old, i + 1).created,
          last_seen |-> old]

\* The loop over ("movement", "hydration") from its i-th iteration on:
\* the calls of the tasks created, in order, and the final _last_seen.
RECURSIVE UpdateLoop(_, _, _)
UpdateLoop(active, old, i) ==
    IF i > Len(RTYPES) THEN [created |-> <<>>, last_seen |-> old]
    ELSE LET rest == UpdateLoop(active, LastSeenWrite(active, old, RTYPES[i]), i + 1)
         IN  [created   |-> CreatedTasks(active, old, RTYPES[i]) \o rest.created,
              last_seen |-> rest.last_seen]

\* hist after the calls cs, issued by the path `by`.
RECURSIVE HistAfter(_, _, _)
HistAfter(h, cs, by) ==
    IF cs = <<>> THEN h
    ELSE LET c == Head(cs)
             t == CHOOSE x \in Types : c.tag = Tag(x)
             h1 == IF IsSend(c)
                   THEN [h EXCEPT ![t] = [send |-> SendId(c), dismissed |-> {}]]
                   ELSE [h EXCEPT ![t].dismissed = @ \cup {by}]
         IN  HistAfter(h1, Tail(cs), by)

\* _on_coordinator_update, called when coordinator.data is d
OnCoordinatorUpdate(d) ==
    IF ~d.loaded
    THEN /\ out' = <<>>
         /\ UNCHANGED <<lastSeen, hist, latest>>
    ELSE LET r == UpdateLoop(d.active, lastSeen, 1)
         IN  /\ lastSeen' = r.last_seen
             /\ out' = r.created
             /\ hist' = HistAfter(hist, r.created, "snapshot")
             /\ latest' = [reconciled |-> TRUE,
                           ids |-> [t \in Types |-> NewId(ActiveGet(d.active, t))]]

\* The marks of the suspended invocations after a snapshot took _last_seen
\* from old to new: an invocation is marked with every type whose id was its
\* id and is now another id.
MarkSuperseded(in_flight, marks, old, new) ==
    [i \in 1..Len(in_flight) |->
        marks[i] \cup {t \in Types : /\ old[t] = in_flight[i]
                                     /\ new[t] # None
                                     /\ new[t] # old[t]}]

\* The marks kept over a reconciled snapshot.
Marked == superseded' = MarkSuperseded(acks, superseded, lastSeen, lastSeen')

\* The trace of a reconciled snapshot.
Traced(d) ==
    /\ seen' = [t \in Types |-> Append(seen[t], NewId(ActiveGet(d.active, t)))]
    /\ calls' = [t \in Types |-> Append(calls[t], Tagged(out', t))]

Event(kind) == [event |-> kind]

\* No snapshot has been reconciled yet.
NoSnapshot == [reconciled |-> FALSE, ids |-> [t \in Types |-> None]]

\* ------------------------------------------------------------- inputs
TokenIds == Ids \cup UnseenIds

\* Actions of other integrations on the shared bus, and near misses.
OtherActions ==
    {<<>>,
     <<"S", "O", "M", "E", "_", "O", "T", "H", "E", "R">>,
     KHEALTH_ \o VERB_CHARS["DONE"] \o <<"_">>,
     KHEALTH_ \o VERB_CHARS["DONE"] \o <<"_", "5", "x">>,
     KHEALTH_ \o VERB_CHARS["DONE"] \o <<"5">>,
     KHEALTH_ \o <<"N", "O", "P", "E", "_", "5">>,
     <<"X">> \o ActionId("DONE", 5),
     VERB_CHARS["DONE"] \o <<"_", "5">>}

\* event.data.get("action", ""): what the buttons of a Send carry, the same
\* with a leading zero or a final newline, and the others.
Actions ==
    {ActionId(v, n) : v \in Verbs, n \in TokenIds}
        \cup {KHEALTH_ \o VERB_CHARS["SKIP"] \o <<"_", "0">> \o Decimal(n) : n \in Ids}
        \cup {ActionId("DONE", n) \o <<"\n">> : n \in Ids}
        \cup OtherActions

\* event.data.get("reply_text", "")
ReplyTexts == {"", "walked the dog"}

Fired(action, reply_text) == [action |-> action, reply_text |-> reply_text]

\* The events fired while snapshots are reconciled: every button of one
\* reminder, a reply with text, a button of each other id, a leading zero,
\* and two events that are not kHealth's.
FiredEvents ==
    {Fired(ActionId(v, 5), "") : v \in Verbs}
        \cup {Fired(ActionId("ALT", 5), "walked the dog")}
        \cup {Fired(ActionId("DONE", n), "") : n \in TokenIds}
        \cup {Fired(KHEALTH_ \o VERB_CHARS["SKIP"] \o <<"_", "0">> \o Decimal(7), "")}
        \cup {Fired(<<>>, ""),
              Fired(<<"S", "O", "M", "E", "_", "O", "T", "H", "E", "R">>, "")}

\* ------------------------------------------------------------- actions
Init ==
    /\ phase = "new"
    /\ subs = NoSubs
    /\ lastSeen = [t \in Types |-> None]
    /\ acks = <<>>
    /\ superseded = <<>>
    /\ out = <<>>
    /\ last = Event("init")
    /\ hist = [t \in Types |-> [send |-> None, dismissed |-> {}]]
    /\ seen = [t \in Types |-> <<>>]
    /\ calls = [t \in Types |-> <<>>]
    /\ latest = NoSnapshot
    /\ tasks = <<>>
    /\ undelivered = {}
    /\ failed = {}

\* start() leaving the initial data alone: it only registers the listeners.
StartStepRegisterOnly(d) ==
    /\ phase = "new"
    /\ phase' = "running"
    /\ subs' = Subscribe(subs)
    /\ out' = <<>>
    /\ last' = [event |-> IF d.loaded THEN "snapshot" ELSE "start_no_data",
                old |-> lastSeen, active |-> d.active, source |-> "start"]
    /\ UNCHANGED <<lastSeen, acks, hist, latest>>

\* notify_mgr.start(coordinator): registers both listeners and, if the
\* coordinator already has data (d, of its first refresh), processes it.
StartStep(d) ==
    /\ phase = "new"
    /\ phase' = "running"
    /\ subs' = Subscribe(subs)
    /\ OnCoordinatorUpdate(d)
    /\ last' = [event |-> IF d.loaded THEN "snapshot" ELSE "start_no_data",
                old |-> lastSeen, active |-> d.active, source |-> "start"]
    /\ UNCHANGED acks

Start(d) == StartStep(d) /\ UNCHANGED <<superseded, seen, calls, channel>>

\* A refresh of the coordinator succeeds: it stores the data and calls the
\* listeners that are registered.
PollStep(active) ==
    /\ phase # "new"
    /\ IF Listening("coordinator")
       THEN /\ OnCoordinatorUpdate(PollData(active))
            /\ last' = [event |-> "snapshot", old |-> lastSeen, active |-> active,
                        source |-> "listener"]
       ELSE /\ out' = <<>>
            /\ last' = [event |-> "poll_unheard", old |-> lastSeen, acks |-> acks]
            /\ UNCHANGED <<lastSeen, hist, latest>>
    /\ UNCHANGED <<phase, subs, acks>>

Poll(active) == PollStep(active) /\ UNCHANGED <<superseded, seen, calls, channel>>

\* No listener is called.
NoCall == [loaded |-> FALSE, active |-> <<>>, called |-> FALSE]

\* The data dropped by a refresh that failed.
RetainedDataDropped(last_seen) == {PollData(<<>>)}

\* coordinator.data after a refresh that failed: the data of the last refresh
\* that succeeded, or None if there was none. The listener was called with
\* that data when it arrived, so its ids are those of last_seen.
RetainedData(last_seen) ==
    {NoData} \cup
        {PollData([t \in S |-> IF last_seen[t] = None THEN Absent
                               ELSE {Reminder(last_seen[t])}]) :
            S \in {K \in SUBSET Types : \A t \in Types \ K : last_seen[t] = None}}

\* A refresh of the coordinator fails (_async_update_data raises UpdateFailed):
\* the data stays, and the coordinator calls its listeners, which read d, or
\* does not call them (d = NoCall).
PollFail(d) ==
    /\ phase # "new"
    /\ IF d # NoCall /\ Listening("coordinator")
       THEN OnCoordinatorUpdate(d)
       ELSE /\ out' = <<>>
            /\ UNCHANGED <<lastSeen, hist, latest>>
    /\ last' = [event |-> "poll_failed", old |-> lastSeen,
                called |-> d # NoCall /\ Listening("coordinator")]
    /\ UNCHANGED <<phase, subs, acks, superseded, seen, calls, channel>>

\* stop() calling the functions without looking at the fields.
StopUnguarded ==
    /\ phase' = "stopped"
    /\ subs' = UnsubscribeUnguarded(UnsubscribeUnguarded(subs, "coordinator"), "action")
    /\ out' = <<>>
    /\ last' = [event |-> "stop", before |-> subs, old |-> lastSeen]
    /\ UNCHANGED <<lastSeen, acks, superseded, hist, seen, calls, latest, channel>>

\* notify_mgr.stop(): unregisters the listeners that are registered.
Stop ==
    /\ phase' = "stopped"
    /\ subs' = Unsubscribe(Unsubscribe(subs, "coordinator"), "action")
    /\ out' = <<>>
    /\ last' = [event |-> "stop", before |-> subs, old |-> lastSeen]
    /\ UNCHANGED <<lastSeen, acks, superseded, hist, seen, calls, latest, channel>>

\* _handle_action up to the POST, which leaves the handler suspended holding
\* reminder_id.
HandleAction(action, reply_text) ==
    LET m == ACTION_PATTERN_match(action)
    IN  IF ~m.matched
        THEN /\ out' = <<>>
             /\ last' = [event |-> "action_ignored", action |-> action,
                         reply_text |-> reply_text, old |-> lastSeen, acks |-> acks]
             /\ UNCHANGED <<acks, superseded>>
        ELSE LET body == RequestOf(m, reply_text)
             IN  /\ Len(acks) < MaxInFlight
                 /\ acks' = Append(acks, body.reminder_id)
                 /\ superseded' = Append(superseded, {})
                 /\ out' = <<PostCall(body)>>
                 /\ last' = [event |-> "action", action |-> action,
                             reply_text |-> reply_text, old |-> lastSeen]

\* A mobile_app_notification_action event is fired on the bus.
ActionEvent(action, reply_text) ==
    /\ IF Listening("action")
       THEN HandleAction(action, reply_text)
       ELSE /\ out' = <<>>
            /\ last' = [event |-> "action_unheard", old |-> lastSeen, acks |-> acks]
            /\ UNCHANGED <<acks, superseded>>
    /\ UNCHANGED <<phase, subs, lastSeen, hist, seen, calls, latest, channel>>

RemoveAt(s, h) == SubSeq(s, 1, h - 1) \o SubSeq(s, h + 1, Len(s))

\* The handler dismissing every type whose id is the id acknowledged.
AfterPostDismissAll(reminder_id, outcome, chan, last_seen) ==
    IF Conclusive(outcome)
    THEN [made  |-> (IF last_seen[RTYPES[1]] = reminder_id
                     THEN <<DismissCall(RTYPES[1])>> ELSE <<>>)
                        \o (IF last_seen[RTYPES[2]] = reminder_id
                            THEN <<DismissCall(RTYPES[2])>> ELSE <<>>),
          ended |-> "returned"]
    ELSE [made  |-> <<ErrorCall>>,
          ended |-> IF chan = "ok" THEN "returned" ELSE "raised"]

\* The handler posting once more when the POST has failed.
AfterPostRetrying(reminder_id, outcome, chan, last_seen) ==
    IF Conclusive(outcome)
    THEN LET found == FindType(last_seen, reminder_id, 1)
         IN  [made  |-> IF found = {} THEN <<>>
                        ELSE <<DismissCall(CHOOSE t \in found : TRUE)>>,
              ended |-> "returned"]
    ELSE [made  |-> <<PostCall([reminder_id |-> reminder_id, response |-> "done"]),
                      ErrorCall>>,
          ended |-> IF chan = "ok" THEN "returned" ELSE "raised"]

\* What _handle_action does once the POST has ended with `outcome`: the calls
\* it makes, and how it ends. The failure of a dismiss is caught inside
\* _dismiss_notification; the error notification is awaited unguarded.
AfterPost(reminder_id, outcome, chan, last_seen) ==
    IF Conclusive(outcome)
    THEN LET found == FindType(last_seen, reminder_id, 1)
         IN  [made  |-> IF found = {} THEN <<>>
                        ELSE <<DismissCall(CHOOSE t \in found : TRUE)>>,
              ended |-> "returned"]
    ELSE [made  |-> <<ErrorCall>>,
          ended |-> IF chan = "ok" THEN "returned" ELSE "raised"]

\* The handler forgetting the id it could not acknowledge.
AckLastSeenResetOnFailure(reminder_id, outcome, last_seen) ==
    IF Conclusive(outcome) THEN last_seen
    ELSE [t \in Types |-> IF last_seen[t] = reminder_id THEN None ELSE last_seen[t]]

\* The handler clearing the id of the type it dismisses.
AckLastSeenClearedOnDismiss(reminder_id, outcome, last_seen) ==
    IF Conclusive(outcome) /\ FindType(last_seen, reminder_id, 1) # {}
    THEN [last_seen EXCEPT ![CHOOSE t \in FindType(last_seen, reminder_id, 1) : TRUE] = None]
    ELSE last_seen

\* The handler forgetting, on a 409, the id already acknowledged.
AckLastSeenClearedOnConflict(reminder_id, outcome, last_seen) ==
    IF outcome.kind = "status" /\ outcome.status = 409
    THEN [t \in Types |-> IF last_seen[t] = reminder_id THEN None ELSE last_seen[t]]
    ELSE last_seen

\* _last_seen when _handle_action is over: the handler reads it in its
\* lookup loop and has no assignment to it.
AckLastSeen(reminder_id, outcome, last_seen) == last_seen

\* _handle_action from the end of the POST on; chan is the outcome of the
\* notify call it makes, if any.
AckStep(h, outcome, chan) ==
    /\ h \in 1..Len(acks)
    /\ LET r == AfterPost(acks[h], outcome, chan, lastSeen)
       IN  /\ out' = r.made
           /\ hist' = HistAfter(hist, Tagged(r.made, RTYPES[1]) \o Tagged(r.made, RTYPES[2]),
                                "action")
           /\ last' = [event |-> "ack", reminder_id |-> acks[h],
                       outcome |-> outcome, ended |-> r.ended,
                       superseded |-> superseded[h], old |-> lastSeen,
                       in_flight |-> Len(acks)]
    /\ acks' = RemoveAt(acks, h)
    /\ superseded' = RemoveAt(superseded, h)
    /\ lastSeen' = AckLastSeen(acks[h], outcome, lastSeen)
    /\ UNCHANGED <<phase, subs, seen, calls, latest>>

AckResponse(h, outcome, chan) == AckStep(h, outcome, chan) /\ UNCHANGED channel

Next ==
    \/ \E d \in StartData : Start(d)
    \/ \E active \in ActiveDicts : Poll(active)
    \/ \E d \in RetainedData(lastSeen) \cup {NoCall} : PollFail(d)
    \/ Stop
    \/ \E e \in FiredEvents : ActionEvent(e.action, e.reply_text)
    \/ \E h \in 1..MaxInFlight, outcome \in AckOutcomes, chan \in ChannelOutcomes :
            AckResponse(h, outcome, chan)

Spec == Init /\ [][Next]_vars

\* ------------------------------------------- snapshots only, with a trace
TracedStart(d) ==
    /\ StartStep(d)
    /\ IF d.loaded THEN Traced(d) ELSE UNCHANGED <<seen, calls>>
    /\ UNCHANGED <<superseded, channel>>

TracedPoll(active) ==
    /\ \A t \in Types : Len(seen[t]) < MaxPolls
    /\ PollStep(active)
    /\ Traced(PollData(active))
    /\ UNCHANGED <<superseded, channel>>

NextSnapshots ==
    \/ \E d \in StartData : TracedStart(d)
    \/ \E active \in ActiveDicts : TracedPoll(active)

SpecSnapshots == Init /\ [][NextSnapshots]_vars

\* ---------------------- acknowledgments in flight over snapshots, marked
MarkedStart(d) == StartStep(d) /\ Marked /\ UNCHANGED <<seen, calls, channel>>

MarkedPoll(active) == PollStep(active) /\ Marked /\ UNCHANGED <<seen, calls, channel>>

\* The events fired in the marked runs: one button of each id.
TappedEvents == {Fired(ActionId("DONE", n), "") : n \in TokenIds}

NextSuperseded ==
    \/ \E d \in StartData : MarkedStart(d)
    \/ \E active \in ActiveDicts : MarkedPoll(active)
    \/ \E e \in TappedEvents :
            Len(acks) < MaxMarked /\ ActionEvent(e.action, e.reply_text)
    \/ \E h \in 1..MaxInFlight, outcome \in AckOutcomes, chan \in ChannelOutcomes :
            AckResponse(h, outcome, chan)

SpecSuperseded == Init /\ [][NextSuperseded]_vars

\* ------------------------------------- one action event, of every shape
\* The manager is listening, _last_seen is what some snapshot left, no
\* handler is suspended, and an event with any action and reply text has
\* been fired.
InitTokens ==
    /\ phase = "running"
    /\ subs = Subscribe(NoSubs)
    /\ lastSeen \in [Types -> Ids \cup {None}]
    /\ acks = <<>>
    /\ superseded = <<>>
    /\ out = <<>>
    /\ last \in {[event |-> "fired", action |-> a, reply_text |-> r] :
                    a \in Actions, r \in ReplyTexts}
    /\ hist = [t \in Types |-> [send |-> lastSeen[t], dismissed |-> {}]]
    /\ seen = [t \in Types |-> <<>>]
    /\ calls = [t \in Types |-> <<>>]
    /\ latest = [reconciled |-> TRUE, ids |-> lastSeen]
    /\ tasks = <<>>
    /\ undelivered = {}
    /\ failed = {}

\* The bus delivers the event fired.
Deliver == last.event = "fired" /\ ActionEvent(last.action, last.reply_text)

NextTokens == Deliver

SpecTokens == InitTokens /\ [][NextTokens]_vars

\* ------------------------------- one snapshot, over every _last_seen
\* The manager is listening, _last_seen is what some snapshot left, and a
\* refresh has returned any active reminders.
InitDiff ==
    /\ phase = "running"
    /\ subs = Subscribe(NoSubs)
    /\ lastSeen \in [Types -> Ids \cup {None}]
    /\ acks = <<>>
    /\ superseded = <<>>
    /\ out = <<>>
    /\ last \in {[event |-> "polled", active |-> active] : active \in ActiveDicts}
    /\ hist = [t \in Types |-> [send |-> lastSeen[t], dismissed |-> {}]]
    /\ seen = [t \in Types |-> <<>>]
    /\ calls = [t \in Types |-> <<>>]
    /\ latest = [reconciled |-> TRUE, ids |-> lastSeen]
    /\ tasks = <<>>
    /\ undelivered = {}
    /\ failed = {}

\* The coordinator stores the data and calls the listener.
Reconcile == last.event = "polled" /\ Poll(last.active)

NextDiff == Reconcile

SpecDiff == InitDiff /\ [][NextDiff]_vars

\* ------------------------- buttons tapped again, no snapshot in between
\* The acknowledgments in flight in these runs, at most.
MaxRetrying == 1

\* The manager is listening and _last_seen is what some snapshot left.
InitRetry ==
    /\ phase = "running"
    /\ subs = Subscribe(NoSubs)
    /\ lastSeen \in [Types -> Ids \cup {None}]
    /\ acks = <<>>
    /\ superseded = <<>>
    /\ out = <<>>
    /\ last = Event("init")
    /\ hist = [t \in Types |-> [send |-> lastSeen[t], dismissed |-> {}]]
    /\ seen = [t \in Types |-> <<>>]
    /\ calls = [t \in Types |-> <<>>]
    /\ latest = [reconciled |-> TRUE, ids |-> lastSeen]
    /\ tasks = <<>>
    /\ undelivered = {}
    /\ failed = {}

\* The user taps a button.
RetryTap(action, reply_text) ==
    /\ Len(acks) < MaxRetrying
    /\ ActionEvent(action, reply_text)

\* _handle_action from the end of the POST on; the id of a POST that failed is
\* remembered.
RetryAck(h, outcome, chan) ==
    /\ AckStep(h, outcome, chan)
    /\ failed' = IF Conclusive(outcome) THEN failed ELSE failed \cup {acks[h]}
    /\ UNCHANGED <<tasks, undelivered>>

NextRetry ==
    \/ \E e \in TappedEvents : RetryTap(e.action, e.reply_text)
    \/ \E h \in 1..MaxRetrying, outcome \in AckOutcomes, chan \in ChannelOutcomes :
            RetryAck(h, outcome, chan)

SpecRetry == InitRetry /\ [][NextRetry]_vars

\* The POST of the oldest invocation in flight ends: it returns a status, or
\* raises, within its ClientTimeout(total=10).
AckHead ==
    \E outcome \in AckOutcomes, chan \in ChannelOutcomes : RetryAck(1, outcome, chan)

\* The same runs, every POST ending.
SpecRetryFair == SpecRetry /\ WF_vars(AckHead)

\* ------------------------------------ the notify calls, with their outcomes
\* The tasks waiting, at most.
MaxPending == 2

\* The acknowledgments in flight while the notify calls are observed, at most.
MaxAwaited == 1

\* The type a notify call is tagged with.
TypeOf(call) == CHOOSE t \in Types : call.tag = Tag(t)

\* The callback waiting for the tasks scheduled before.
EnqueuedAfterPending ==
    /\ Len(tasks) + Len(out') <= MaxPending
    /\ tasks' = out'
    /\ UNCHANGED <<undelivered, failed>>

\* hass.async_create_task(...): the coroutines of the calls a reconciled
\* snapshot decided are scheduled, and the callback returns.
Enqueued ==
    /\ Len(tasks) + Len(out') <= MaxPending
    /\ tasks' = tasks \o out'
    /\ UNCHANGED <<undelivered, failed>>

\* A task letting the failure of its call out.
NotifyTaskRaising(call, chan) ==
    [call |-> call, chan |-> chan,
     ended |-> IF chan = "ok" THEN "returned" ELSE "raised"]

\* _send_notification and _dismiss_notification: the call ends with chan; a
\* failure is caught and logged, and the coroutine returns.
NotifyTask(call, chan) == [call |-> call, chan |-> chan, ended |-> "returned"]

\* A task taking back the id of the send that failed.
TaskLastSeenRolledBack(call, chan, last_seen) ==
    IF chan = "fail" /\ IsSend(call)
    THEN [last_seen EXCEPT ![TypeOf(call)] = None]
    ELSE last_seen

\* _last_seen when a task is over: neither coroutine assigns to it.
TaskLastSeen(call, chan, last_seen) == last_seen

\* What is known of the notify calls once `call` has ended with chan.
Delivered(call, chan) ==
    IF chan = "fail" THEN undelivered \cup {TypeOf(call)}
    ELSE undelivered \ {TypeOf(call)}

\* One of the scheduled tasks runs to its end.
RunTask(i, chan) ==
    /\ i \in 1..Len(tasks)
    /\ LET r == NotifyTask(tasks[i], chan)
       IN  /\ last' = [event |-> "task", call |-> r.call, chan |-> r.chan,
                       ended |-> r.ended, old |-> lastSeen]
           /\ undelivered' = Delivered(r.call, r.chan)
    /\ lastSeen' = TaskLastSeen(tasks[i], chan, lastSeen)
    /\ tasks' = RemoveAt(tasks, i)
    /\ out' = <<>>
    /\ UNCHANGED <<phase, subs, acks, superseded, hist, seen, calls, latest, failed>>

ChannelStart(d) == StartStep(d) /\ Enqueued /\ UNCHANGED <<superseded, seen, calls>>

ChannelPoll(active) == PollStep(active) /\ Enqueued /\ UNCHANGED <<superseded, seen, calls>>

\* _handle_action from the end of the POST on, the dismiss it awaits ending
\* with chan.
ChannelAck(h, outcome, chan) ==
    /\ AckStep(h, outcome, chan)
    /\ undelivered' = IF out' # <<>> /\ IsDismiss(out'[1])
                      THEN Delivered(out'[1], chan)
                      ELSE undelivered
    /\ UNCHANGED <<tasks, failed>>

\* The snapshots of these runs: the reminders of the first type come and go,
\* the second type has none.
ChannelDicts == {active \in [Types -> OptReminders] : active[RTYPES[2]] = Absent}

ChannelStartData == {NoData} \cup {PollData(active) : active \in ChannelDicts}

NextChannel ==
    \/ \E d \in ChannelStartData : ChannelStart(d)
    \/ \E active \in ChannelDicts : ChannelPoll(active)
    \/ \E i \in 1..MaxPending, chan \in ChannelOutcomes : RunTask(i, chan)
    \/ \E e \in TappedEvents :
            Len(acks) < MaxAwaited /\ ActionEvent(e.action, e.reply_text)
    \/ \E h \in 1..MaxAwaited, outcome \in AckOutcomes, chan \in ChannelOutcomes :
            ChannelAck(h, outcome, chan)

SpecChannel == Init /\ [][NextChannel]_vars

\* ------------------------------------- the buttons of a Send, tapped
\* The largest reminder id of these runs.
MaxId == 12

\* A reminder of any id.
ButtonReminder(n) == [id |-> n, message |-> "Stand up and stretch"]

\* coordinator.data with one reminder, of any type and of any id from 0 on.
ButtonData ==
    {PollData([t \in Types |-> IF t = s THEN {ButtonReminder(n)} ELSE Absent]) :
        s \in Types, n \in 0..MaxId}

\* start() with the reminder: its Send is issued.
ButtonStart(d) == Start(d)

\* The user taps the k-th button of the Send just issued, and the companion
\* app fires its action id back, with the text typed if any.
TapButton(k, reply_text) ==
    /\ last.event = "snapshot"
    /\ Len(out) = 1
    /\ IsSend(out[1])
    /\ k \in 1..Len(out[1].actions)
    /\ ActionEvent(out[1].actions[k].action, reply_text)

NextButtons ==
    \/ \E d \in ButtonData : ButtonStart(d)
    \/ \E k \in 1..4, reply_text \in ReplyTexts : TapButton(k, reply_text)

SpecButtons == Init /\ [][NextButtons]_vars

\* ----------------------------------------------------------- properties
\* The id the last reconciled snapshot carries for t.
SnapId(t) == NewId(ActiveGet(last.active, t))

IsSendOf(c, t, n) == IsSend(c) /\ c.tag = Tag(t) /\ SendId(c) = n

IsDismissOf(c, t) == IsDismiss(c) /\ c.tag = Tag(t)

RECURSIVE Flat(_)
Flat(ss) == IF ss = <<>> THEN <<>> ELSE Head(ss) \o Flat(Tail(ss))

Count(cs, Test(_)) == Len(SelectSeq(cs, Test))

AckFinished == last.event = "ack"

AckConclusive ==
    /\ last.event = "ack"
    /\ last.outcome.kind = "status"
    /\ last.outcome.status \in {200, 409}

\* C1: in a run of snapshots, whenever the id of a type changes from one
\* present id to another present id, that snapshot issues exactly one Send for
\* the new id and no Dismiss for the type; over None -> a -> b the calls for
\* the type are exactly Send(a), Send(b).
C1_ReplaceWithoutDismiss ==
    \A t \in Types :
        /\ \A j \in 2..Len(seen[t]) :
              (seen[t][j - 1] # None /\ seen[t][j] # None /\ seen[t][j] # seen[t][j - 1])
                  => /\ Len(calls[t][j]) = 1
                     /\ IsSendOf(calls[t][j][1], t, seen[t][j])
        /\ \A a \in Ids : \A b \in Ids \ {a} :
              seen[t] \in {<<a, b>>, <<None, a, b>>}
                  => /\ Len(Flat(calls[t])) = 2
                     /\ IsSendOf(Flat(calls[t])[1], t, a)
                     /\ IsSendOf(Flat(calls[t])[2], t, b)

C1_Witness ==
    \E t \in Types : seen[t] = <<None, 5, 7>> /\ Len(calls[t][3]) = 1

\* C2: a snapshot whose reminder for a type is present with an id other than
\* LastSeen's issues exactly one Send for the type, carrying that reminder,
\* and leaves LastSeen at the new id.
C2_SendOnNewId ==
    last.event = "snapshot" =>
        \A t \in Types :
            (SnapId(t) # None /\ SnapId(t) # last.old[t])
                => /\ Len(Tagged(out, t)) = 1
                   /\ IsSendOf(Tagged(out, t)[1], t, SnapId(t))
                   /\ Tagged(out, t)[1].message = MESSAGES[SnapId(t)]
                   /\ lastSeen[t] = SnapId(t)

C2_Witness ==
    /\ last.event = "snapshot"
    /\ \E t \in Types : SnapId(t) = 7 /\ last.old[t] = 5 /\ Len(Tagged(out, t)) = 1
    /\ \E t \in Types : SnapId(t) = 5 /\ last.old[t] = None /\ Len(Tagged(out, t)) = 1

\* C3: a snapshot without a reminder for a type whose LastSeen is an id issues
\* exactly one Dismiss with the type's tag, no Send for it, and leaves
\* LastSeen at None.
C3_DismissOnAbsent ==
    last.event = "snapshot" =>
        \A t \in Types :
            (SnapId(t) = None /\ last.old[t] # None)
                => /\ Len(Tagged(out, t)) = 1
                   /\ IsDismissOf(Tagged(out, t)[1], t)
                   /\ lastSeen[t] = None

C3_Witness ==
    /\ last.event = "snapshot"
    /\ \E t \in Types : SnapId(t) = None /\ last.old[t] = 5 /\ Len(Tagged(out, t)) = 1

\* C4: a snapshot carrying for a type the id LastSeen already has (both absent
\* included) issues no call for the type and leaves its LastSeen; a snapshot
\* delivered right after an identical one issues nothing and changes nothing.
C4_Idempotent ==
    [][ last'.event = "snapshot" =>
          /\ \A t \in Types :
                NewId(ActiveGet(last'.active, t)) = lastSeen[t]
                    => Tagged(out', t) = <<>> /\ lastSeen'[t] = lastSeen[t]
          /\ (last.event = "snapshot" /\ last'.active = last.active)
                => out' = <<>> /\ lastSeen' = lastSeen
      ]_vars

C4_Witness ==
    /\ last.event = "snapshot"
    /\ \A t \in Types : SnapId(t) = last.old[t]
    /\ \E t \in Types : SnapId(t) = 5
    /\ out = <<>>

\* C5: over the snapshot ids None -> a -> a -> None of a type, with no action
\* event, the calls for the type are one Send(a) on the first a, nothing on
\* the second, and one Dismiss on the final None.
C5_SendOnceDismissOnce ==
    \A t \in Types, a \in Ids :
        /\ seen[t] = <<None, a, a, None>>
              => /\ calls[t][1] = <<>>
                 /\ Len(calls[t][2]) = 1 /\ IsSendOf(calls[t][2][1], t, a)
                 /\ calls[t][3] = <<>>
                 /\ Len(calls[t][4]) = 1 /\ IsDismissOf(calls[t][4][1], t)
        /\ seen[t] = <<a, a, None>>
              => /\ Len(Flat(calls[t])) = 2
                 /\ IsSendOf(Flat(calls[t])[1], t, a)
                 /\ IsDismissOf(Flat(calls[t])[2], t)
                 /\ calls[t][2] = <<>>

C5_Witness ==
    \E t \in Types : seen[t] = <<None, 5, 5, None>> /\ Len(Flat(calls[t])) = 2

\* C6 as claimed: LastSeen of a type is the id of its most recent Send if no
\* Dismiss of either path was issued for the type since, and None otherwise.
C6_Original ==
    \A t \in Types :
        lastSeen[t] = IF hist[t].send # None /\ hist[t].dismissed = {}
                      THEN hist[t].send ELSE None

\* C6, amended: LastSeen of a type is the id of its most recent Send if no
\* Dismiss was issued for the type by the reconciliation of a snapshot since,
\* and None otherwise; a Dismiss issued by the acknowledgment path leaves it.
C6_LastSeenTracksSnapshotCalls ==
    \A t \in Types :
        lastSeen[t] = IF hist[t].send # None /\ "snapshot" \notin hist[t].dismissed
                      THEN hist[t].send ELSE None

C6_Witness ==
    \E t \in Types :
        /\ hist[t].send = 5 /\ hist[t].dismissed = {"action"} /\ lastSeen[t] = 5
        /\ \E u \in Types : "snapshot" \in hist[u].dismissed /\ lastSeen[u] = None

\* C7: when an acknowledgment ends with 200 or 409 and some type has the
\* acknowledged id in LastSeen, a Dismiss with the tag of such a type is issued.
C7_ConclusiveAckDismisses ==
    (AckConclusive /\ \E t \in Types : lastSeen[t] = last.reminder_id)
        => \E t \in Types :
              /\ lastSeen[t] = last.reminder_id
              /\ \E j \in 1..Len(out) : IsDismissOf(out[j], t)

C7_Witness ==
    /\ AckConclusive
    /\ last.outcome.status = 200
    /\ lastSeen["hydration"] = last.reminder_id
    /\ lastSeen["movement"] # last.reminder_id
    /\ out = <<DismissCall("hydration")>>

\* C8: an acknowledgment of the currently notified id that ends with 409 has
\* the result of one that ends with 200: exactly one Dismiss, no error
\* notification, and the handler returns.
C8_ConflictIsSuccess ==
    (AckConclusive /\ \E t \in Types : lastSeen[t] = last.reminder_id)
        => /\ Count(out, IsDismiss) = 1
           /\ Count(out, IsError) = 0
           /\ Len(out) = 1
           /\ last.ended = "returned"

C8_Witness ==
    /\ AckConclusive
    /\ last.outcome.status = 409
    /\ \E t \in Types : lastSeen[t] = last.reminder_id
    /\ Count(out, IsDismiss) = 1

C10_UnknownIdAcknowledged ==
    /\ \A v \in Verbs, n \in TokenIds :
          (/\ last.event = "action"
           /\ last.action = ActionId(v, n)
           /\ \A t \in Types : lastSeen[t] # n)
              => /\ Len(out) = 1
                 /\ IsPost(out[1])
                 /\ out[1].json.reminder_id = n
    /\ (AckConclusive /\ \A t \in Types : lastSeen[t] # last.reminder_id)
          => out = <<>> /\ last.ended = "returned"

C10_Witness ==
    /\ AckConclusive
    /\ last.reminder_id = 42
    /\ \E t \in Types : lastSeen[t] # None
    /\ out = <<>>

\* C11: when an acknowledgment ends with 200 or 409 and, while it was in
\* flight, a snapshot replaced its id n by another id for type t (a Send of
\* the new id was issued) and LastSeen of t is still not n, the handler
\* issues no Dismiss for t and no error notification, and returns.
C11_SupersededAckIsNoOp ==
    \A t \in Types :
        (AckConclusive /\ t \in last.superseded /\ lastSeen[t] # last.reminder_id)
            => /\ \A j \in 1..Len(out) : ~IsDismissOf(out[j], t)
               /\ Count(out, IsError) = 0
               /\ last.ended = "returned"

C11_Witness ==
    /\ AckConclusive
    /\ last.reminder_id = 5
    /\ last.superseded = {"movement"}
    /\ lastSeen["movement"] = 7
    /\ hist["movement"] = [send |-> 7, dismissed |-> {}]
    /\ out = <<>>

\* A token of the shape KHEALTH_<VERB>_<digits>: one of the four verbs, then
\* one or more decimal digits, and nothing else.
HasTokenShape(action) ==
    \E v \in Verbs :
        LET head == KHEALTH_ \o VERB_CHARS[v] \o <<"_">>
        IN  /\ Len(action) > Len(head)
            /\ SubSeq(action, 1, Len(head)) = head
            /\ \A i \in (Len(head) + 1)..Len(action) : action[i] \in DigitChars

\* The event delivered has been handled.
Handled == last.event \in {"action", "action_ignored"}

\* C12: an action event whose token is not of the shape
\* KHEALTH_(DONE|SKIP|SNOOZE|ALT)_<digits>, a missing action included, is
\* ignored: no acknowledgment is submitted, no channel call is issued and
\* LastSeen is as before.
C12_MalformedIgnored ==
    (Handled /\ ~HasTokenShape(last.action))
        => /\ last.event = "action_ignored"
           /\ out = <<>>
           /\ acks = <<>>
           /\ lastSeen = last.old

\* C13: the event of a well-formed token VERB_n (n written with or without a
\* leading zero) submits one request with reminder_id n and the response of
\* the verb (DONE done, SKIP skipped, SNOOZE snoozed, ALT alternative); the
\* request has notes exactly if the verb is ALT and the reply text is not
\* empty, and the notes are then the reply text.
C13_RequestOfToken ==
    \A v \in Verbs, n \in TokenIds :
        (/\ Handled
         /\ last.action \in {ActionId(v, n),
                              KHEALTH_ \o VERB_CHARS[v] \o <<"_", "0">> \o Decimal(n)})
            => /\ last.event = "action"
               /\ Len(out) = 1
               /\ IsPost(out[1])
               /\ acks = <<n>>
               /\ out[1].json.reminder_id = n
               /\ out[1].json.response =
                      (CASE v = "DONE" -> "done" [] v = "SKIP" -> "skipped"
                         [] v = "SNOOZE" -> "snoozed" [] v = "ALT" -> "alternative")
               /\ ("notes" \in DOMAIN out[1].json) <=> (v = "ALT" /\ last.reply_text # "")
               /\ ("notes" \in DOMAIN out[1].json) => out[1].json.notes = last.reply_text

C13_Witness ==
    /\ last.event = "action"
    /\ last.action = ActionId("ALT", 42)
    /\ out = <<PostCall([reminder_id |-> 42, response |-> "alternative",
                         notes |-> "walked the dog"])>>

\* C14: the handling of an action event never writes LastSeen: after an
\* event that is malformed, unheard or submitted, and after an acknowledgment
\* that ended with 200, 409, another status or an exception, LastSeen is what
\* it was before; LastSeen differs from before only after a snapshot.
C14_ActionKeepsLastSeen ==
    /\ last.event \in {"action", "action_ignored", "action_unheard", "ack"}
          => lastSeen = last.old
    /\ last.event \notin {"init", "snapshot"} => lastSeen = last.old

C14_Witness ==
    /\ AckConclusive
    /\ last.outcome.status = 200
    /\ last.reminder_id = 7
    /\ last.old["movement"] = 7
    /\ lastSeen["movement"] = 7
    /\ out = <<DismissCall("movement")>>

\* C15 as claimed: when LastSeen of t is id and an acknowledgment for id ends
\* with 200 or 409, t is no longer recorded as notified: LastSeen of t is None.
C15_Original ==
    \A t \in Types :
        (AckConclusive /\ last.old[t] = last.reminder_id) => lastSeen[t] = None

\* C15, amended: when LastSeen of t is id and an acknowledgment for id ends
\* with 200 or 409, a Dismiss is issued for the first such type, and every
\* such type stays recorded as notified for id: LastSeen of t is still id.
C15_AckLeavesNotified ==
    \A t \in Types :
        (AckConclusive /\ last.old[t] = last.reminder_id)
            => /\ lastSeen[t] = last.reminder_id
               /\ Count(out, IsDismiss) = 1

C15_Witness ==
    /\ AckConclusive
    /\ last.outcome.status = 409
    /\ last.reminder_id = 5
    /\ last.old = [t \in Types |-> 5]
    /\ lastSeen = [t \in Types |-> 5]
    /\ out = <<DismissCall("movement")>>

\* C16: the decision for a type and the write of its LastSeen are one step,
\* whatever action events and acknowledgments come in between: a snapshot
\* issues Send(n) for a type only if the last call a snapshot issued for the
\* type was not Send(n), and issues Dismiss for a type only if the last call
\* a snapshot issued for it was a Send. So two snapshots in a row never both
\* issue Send for the same id of a type, nor both Dismiss for a type.
C16_NoDoubleDecision ==
    [][ last'.event \in {"snapshot", "poll_failed"} =>
          \A t \in Types : \A j \in 1..Len(out') :
              /\ (IsSend(out'[j]) /\ out'[j].tag = Tag(t))
                    => ~(/\ hist[t].send = SendId(out'[j])
                         /\ "snapshot" \notin hist[t].dismissed)
              /\ IsDismissOf(out'[j], t)
                    => /\ hist[t].send # None
                       /\ "snapshot" \notin hist[t].dismissed
      ]_vars

C16_Witness ==
    /\ last.event = "snapshot"
    /\ last.source = "listener"
    /\ acks # <<>>
    /\ SnapId("movement") = 5
    /\ hist["movement"] = [send |-> 5, dismissed |-> {"action"}]
    /\ SnapId("hydration") = None
    /\ hist["hydration"] = [send |-> 7, dismissed |-> {"snapshot"}]
    /\ out = <<>>

\* C17: once stop() has returned, a snapshot or an action event that arrives
\* is not accepted: it submits no acknowledgment, issues no call and leaves
\* LastSeen; only handlers already suspended can still end.
C17_NothingAcceptedAfterStop ==
    phase = "stopped" =>
        /\ last.event \in {"stop", "poll_unheard", "poll_failed", "action_unheard", "ack"}
        /\ last.event \in {"poll_unheard", "action_unheard"}
              => out = <<>> /\ acks = last.acks /\ lastSeen = last.old
        /\ last.event = "poll_failed"
              => ~last.called /\ out = <<>> /\ lastSeen = last.old

C17_Witness ==
    /\ phase = "stopped"
    /\ last.event = "action_unheard"
    /\ subs.removals = [l \in Listeners |-> 1]
    /\ lastSeen["movement"] = 5
    /\ acks # <<>>

\* C18: stop() is safe in every lifecycle state: on a manager never started,
\* running, or already stopped, it calls the function removing a listener
\* only if it holds one (so nothing raises), removes each registered
\* listener once and no listener twice, and leaves none registered.
C18_StopIsSafe ==
    last.event = "stop" =>
        \A l \in Listeners :
            /\ subs.registered[l] = 0
            /\ ~subs.unsub[l]
            /\ subs.removals[l] - last.before.removals[l] = last.before.registered[l]
            /\ subs.removals[l] - last.before.removals[l]
                  = (IF last.before.unsub[l] THEN 1 ELSE 0)
            /\ subs.removals[l] <= 1

C18_Witness ==
    /\ last.event = "stop"
    /\ last.before.unsub = [l \in Listeners |-> FALSE]
    /\ last.before.removals = [l \in Listeners |-> 1]
    /\ subs = last.before

\* C19: when the coordinator has data at start(), start() reconciles it in
\* the same step, once: every type with a reminder gets exactly one Send,
\* for that reminder, every type without one gets no call, and nothing else
\* is issued.
C19_StartReconcilesOnce ==
    (last.event = "snapshot" /\ last.source = "start") =>
        /\ \A t \in Types :
              IF SnapId(t) # None
              THEN /\ Len(Tagged(out, t)) = 1
                   /\ IsSendOf(Tagged(out, t)[1], t, SnapId(t))
              ELSE Tagged(out, t) = <<>>
        /\ Len(out) = Cardinality({t \in Types : SnapId(t) # None})
        /\ \A t \in Types : lastSeen[t] = SnapId(t)

C19_Witness ==
    /\ last.event = "snapshot"
    /\ last.source = "start"
    /\ SnapId("movement") = 5
    /\ SnapId("hydration") = None
    /\ out = <<SendCall({Reminder(5)}, "movement")>>

\* C20: a poll that fails issues no call and leaves LastSeen, the suspended
\* handlers and the listeners as they are, whether the coordinator calls the
\* listener or not; the snapshot that follows it is reconciled against the
\* LastSeen of before the failure: the same id issues nothing, another id
\* one Send, no reminder one Dismiss.
C20_FailedPollInvisible ==
    [][ /\ last'.event = "poll_failed"
              => /\ out' = <<>>
                 /\ lastSeen' = lastSeen
                 /\ hist' = hist
                 /\ acks' = acks
                 /\ subs' = subs
        /\ (last.event = "poll_failed" /\ last'.event = "snapshot")
              => \A t \in Types :
                    LET new_id == NewId(ActiveGet(last'.active, t))
                    IN  IF new_id = last.old[t] THEN Tagged(out', t) = <<>>
                        ELSE /\ Len(Tagged(out', t)) = 1
                             /\ IF new_id # None
                                THEN IsSendOf(Tagged(out', t)[1], t, new_id)
                                ELSE IsDismissOf(Tagged(out', t)[1], t)
      ]_vars

C20_Witness ==
    /\ last.event = "poll_failed"
    /\ last.called
    /\ last.old["movement"] = 5
    /\ lastSeen["movement"] = 5
    /\ acks # <<>>
    /\ out = <<>>

\* C21: a Send or a Dismiss that fails in the channel takes nothing back: the
\* task that failed leaves LastSeen as it was, which is the id of the Send
\* (None for a Dismiss) while the last reconciled snapshot is the one that
\* decided the call; and a snapshot that carries the same id again for a type
\* whose last call failed issues no call for that type and keeps LastSeen.
C21_OptimisticLastSeen ==
    /\ (last.event = "task" /\ last.chan = "fail") =>
            /\ lastSeen = last.old
            /\ \A t \in Types, n \in Ids :
                    (IsSendOf(last.call, t, n) /\ latest.ids[t] = n) => lastSeen[t] = n
            /\ \A t \in Types :
                    (IsDismissOf(last.call, t) /\ latest.ids[t] = None)
                        => lastSeen[t] = None
    /\ \A t \in Types :
            (last.event = "snapshot" /\ t \in undelivered /\ SnapId(t) = last.old[t])
                => /\ Tagged(out, t) = <<>>
                   /\ lastSeen[t] = last.old[t]

\* The Send of id 5 has failed, and the snapshot that carries 5 comes again.
C21_Witness ==
    /\ last.event = "snapshot"
    /\ RTYPES[1] \in undelivered
    /\ hist[RTYPES[1]] = [send |-> 5, dismissed |-> {}]
    /\ SnapId(RTYPES[1]) = 5
    /\ last.old[RTYPES[1]] = 5
    /\ lastSeen[RTYPES[1]] = 5
    /\ tasks = <<>>
    /\ out = <<>>

\* C22: a notify call that fails raises into nobody: the task that made it
\* returns, the handler whose Dismiss failed returns, and a snapshot that comes
\* while the last call of some type has failed is reconciled by the diff: a
\* Send for a new id, a Dismiss for an id gone, nothing otherwise, and the id
\* of the snapshot in LastSeen.
C22_ChannelFailureContained ==
    /\ last.event = "task" => last.ended = "returned"
    /\ (/\ last.event = "ack"
        /\ \E t \in undelivered : Count(out, LAMBDA c : IsDismissOf(c, t)) > 0)
            => last.ended = "returned"
    /\ (last.event = "snapshot" /\ undelivered # {}) =>
            \A t \in Types :
                LET old == last.old[t]
                    new == SnapId(t)
                    made == Tagged(out, t)
                IN  /\ lastSeen[t] = new
                    /\ (new # None /\ new # old) =>
                            Len(made) = 1 /\ IsSendOf(made[1], t, new)
                    /\ (new = None /\ old # None) =>
                            Len(made) = 1 /\ IsDismissOf(made[1], t)
                    /\ (new = old) => made = <<>>

\* The Send of id 5 has failed, and the next snapshot replaces 5 by 7.
C22_Witness ==
    /\ last.event = "snapshot"
    /\ undelivered = {RTYPES[1]}
    /\ last.old[RTYPES[1]] = 5
    /\ tasks = <<SendCall({Reminder(7)}, RTYPES[1])>>
    /\ out = tasks
    /\ lastSeen[RTYPES[1]] = 7

\* C23: the handler that issues the error notification after a failed
\* acknowledgment returns, whether the notify call succeeds or fails, with no
\* Dismiss issued and LastSeen as it was.
C23_ErrorNotificationBestEffort ==
    (last.event = "ack" /\ Count(out, IsError) > 0) =>
        /\ last.ended = "returned"
        /\ Count(out, IsDismiss) = 0
        /\ lastSeen = last.old

\* The four buttons as the claim spells them, and the digits of the ids.
ButtonVerbs ==
    <<<<"D", "O", "N", "E">>, <<"S", "K", "I", "P">>,
      <<"S", "N", "O", "O", "Z", "E">>, <<"A", "L", "T">>>>

IdDigits == [n \in Ids |-> IF n = 5 THEN <<"5">> ELSE <<"7">>]

ButtonId(k, n) ==
    <<"K", "H", "E", "A", "L", "T", "H", "_">> \o ButtonVerbs[k] \o <<"_">> \o IdDigits[n]

\* C24: every Send issued is for a type t and the id n the snapshot carries
\* for t, and has the tag khealth-<t>, the message of the reminder and four
\* buttons KHEALTH_DONE_n, KHEALTH_SKIP_n, KHEALTH_SNOOZE_n, KHEALTH_ALT_n in
\* this order, the last one alone asking for text; every Dismiss issued has the
\* tag khealth-<t> of the type it clears.
C24_SendAndDismissContent ==
    \A i \in 1..Len(out) :
        LET c == out[i]
        IN  /\ IsSend(c) =>
                /\ last.event = "snapshot"
                /\ \E t \in Types, n \in Ids :
                        /\ SnapId(t) = n
                        /\ last.old[t] # n
                        /\ c.tag = <<"khealth-", t>>
                        /\ c.message = (CHOOSE r \in ActiveGet(last.active, t) : TRUE).message
                        /\ Len(c.actions) = 4
                        /\ \A k \in 1..4 :
                                /\ c.actions[k].action = ButtonId(k, n)
                                /\ ("behavior" \in DOMAIN c.actions[k]) <=> (k = 4)
                        /\ c.actions[4].behavior = "textInput"
            /\ IsDismiss(c) =>
                \E t \in Types :
                    /\ c.tag = <<"khealth-", t>>
                    /\ last.event \in {"snapshot", "ack"}
                    /\ last.event = "snapshot" => (SnapId(t) = None /\ last.old[t] # None)
                    /\ last.event = "ack" => last.old[t] = last.reminder_id

\* One snapshot issues the Send of one type and the Dismiss of the other.
C24_Witness ==
    /\ last.event = "snapshot"
    /\ Len(out) = 2
    /\ Count(out, IsSend) = 1
    /\ Count(out, IsDismiss) = 1

\* The responses of the four buttons, in the order of the buttons.
ButtonResponses == <<"done", "skipped", "snoozed", "alternative">>

C26_NoAutomaticRetry ==
    /\ Count(out, IsPost) = (IF last.event = "action" THEN 1 ELSE 0)
    /\ last.event = "action" =>
            /\ out = <<PostCall(out[1].json)>>
            /\ acks # <<>>
            /\ out[1].json.reminder_id = acks[Len(acks)]
    /\ last.event = "ack" => Len(acks) = last.in_flight - 1

\* The acknowledgment of the button has failed, and nothing is in flight.
C26_Witness ==
    /\ last.event = "ack"
    /\ ~AckConclusive
    /\ last.reminder_id = 5
    /\ Count(out, IsError) = 1
    /\ Len(out) = 1
    /\ acks = <<>>

\* C27: what a snapshot does for a type t is fixed by the reminder it carries
\* for t and by LastSeen[t]: with any other reminder and any other LastSeen
\* for the other type, the calls tagged khealth-<t> and the value written to
\* LastSeen[t] are the same; every call issued is tagged with a type whose
\* id changed, and a type whose id did not change gets no call and keeps
\* LastSeen while the other type changes.
C27_TypesIndependent ==
    last.event = "snapshot" =>
        /\ \A t \in Types :
                /\ \A active \in ActiveDicts, old \in [Types -> Ids \cup {None}] :
                        (/\ ActiveGet(active, t) = ActiveGet(last.active, t)
                         /\ old[t] = last.old[t])
                            => LET r == UpdateLoop(active, old, 1)
                               IN  /\ Tagged(r.created, t) = Tagged(out, t)
                                   /\ r.last_seen[t] = lastSeen[t]
                /\ SnapId(t) = last.old[t] =>
                        /\ Tagged(out, t) = <<>>
                        /\ lastSeen[t] = last.old[t]
        /\ \A i \in 1..Len(out) :
                \E t \in Types : out[i].tag = Tag(t) /\ SnapId(t) # last.old[t]

\* The reminder of the first type is replaced while the second type keeps
\* its reminder: one Send, tagged with the first type.
C27_Witness ==
    /\ last.event = "snapshot"
    /\ last.old = [t \in Types |-> IF t = RTYPES[1] THEN 5 ELSE 7]
    /\ lastSeen = [t \in Types |-> 7]
    /\ Len(out) = 1
    /\ IsSendOf(out[1], RTYPES[1], 7)

\* C28: the action path issues a Dismiss only when an acknowledgment has
\* ended with status 200 or 409: the event that posts the acknowledgment, and
\* the events ignored, issue none, and an acknowledgment that has ended
\* otherwise issues none.
C28_DismissAfterConclusiveOnly ==
    /\ last.event \in {"action", "action_ignored", "action_unheard"} =>
            Count(out, IsDismiss) = 0
    /\ (last.event = "ack" /\ Count(out, IsDismiss) > 0) =>
            /\ last.outcome.kind = "status"
            /\ last.outcome.status \in {200, 409}
            /\ last.in_flight = Len(acks) + 1

\* The acknowledgment has returned 409 and the notification is dismissed.
C28_Witness ==
    /\ last.event = "ack"
    /\ last.outcome = [kind |-> "status", status |-> 409]
    /\ Len(out) = 1
    /\ IsDismissOf(out[1], RTYPES[2])
    /\ last.reminder_id = 7

C30_LastSeenIsLatestSnapshot ==
    latest.reconciled => \A t \in Types : lastSeen[t] = latest.ids[t]

\* After the snapshot, an acknowledgment has failed and so has its error
\* notification.
C30_Witness ==
    /\ latest.reconciled
    /\ latest.ids = [t \in Types |-> IF t = RTYPES[1] THEN 5 ELSE None]
    /\ lastSeen = latest.ids
    /\ last.event = "ack"
    /\ last.reminder_id = 5
    /\ last.ended = "raised"

\* The calls of cs that dismiss the notification of t.
DismissesOf(cs, t) == SelectSeq(cs, LAMBDA c : IsDismissOf(c, t))

\* C31 as claimed: a Dismiss is issued for a type, by either path, only when no
\* Dismiss has been issued for it since its last Send, and one at a time.
C31_Original ==
    [][\A t \in Types :
            DismissesOf(out', t) # <<>> =>
                /\ Len(DismissesOf(out', t)) = 1
                /\ hist[t].dismissed = {}]_vars

\* C31, amended: the reconciliation of snapshots issues at most one Dismiss for
\* a type between two Sends for it, when LastSeen holds an id, and no Dismiss
\* of either path follows it before the next Send; the acknowledgment path
\* issues its Dismiss whenever LastSeen is the acknowledged id, be it after an
\* earlier Dismiss of its own.
C31_OneSnapshotDismiss ==
    [][\A t \in Types :
            DismissesOf(out', t) # <<>> =>
                /\ Len(DismissesOf(out', t)) = 1
                /\ "snapshot" \notin hist[t].dismissed
                /\ lastSeen[t] # None
                /\ last'.event \in {"snapshot", "ack"}
                /\ last'.event = "snapshot" => lastSeen'[t] = None
                /\ last'.event = "ack" => lastSeen[t] = last'.reminder_id]_vars

\* The notification of id 5 was dismissed by an acknowledgment, and again by
\* the snapshot in which the reminder is gone.
C31_Witness ==
    /\ last.event = "snapshot"
    /\ hist[RTYPES[1]] = [send |-> 5, dismissed |-> {"action", "snapshot"}]
    /\ DismissesOf(out, RTYPES[1]) # <<>>
    /\ lastSeen[RTYPES[1]] = None

\* C32: when an acknowledgment has dismissed the notification of a type since
\* its last Send, of id n, a snapshot that carries n for the type issues no
\* call for it and leaves LastSeen at n.
C32_NoSendAfterAcknowledgment ==
    [][\A t \in Types :
            (/\ last'.event = "snapshot"
             /\ hist[t].dismissed = {"action"}
             /\ NewId(ActiveGet(last'.active, t)) = hist[t].send)
                => /\ Tagged(out', t) = <<>>
                   /\ lastSeen'[t] = hist[t].send
                   /\ hist'[t] = hist[t]]_vars

\* The acknowledgment of id 5 has dismissed the notification, and the
\* snapshot that still carries 5 has been reconciled with no call.
C32_Witness ==
    /\ last.event = "snapshot"
    /\ hist[RTYPES[1]] = [send |-> 5, dismissed |-> {"action"}]
    /\ SnapId(RTYPES[1]) = 5
    /\ lastSeen[RTYPES[1]] = 5
    /\ out = <<>>

\* The device, each call taking effect when it is issued: under the tag of t
\* it shows the id of the last Send for t, and nothing once a Dismiss for t
\* has followed.
Device(t) == IF hist[t].dismissed = {} THEN hist[t].send ELSE None

\* C33: what the device shows for a type is the id in LastSeen or nothing;
\* an acknowledgment that dismisses the notification of t does so when
\* LastSeen[t] is its id, which is the id of the last Send for t; and when an
\* acknowledgment ends after a snapshot replaced its id for t, LastSeen[t]
\* being another id that no acknowledgment has dismissed, the device still
\* shows that id.
C33_StaleAckKeepsReplacement ==
    \A t \in Types :
        /\ Device(t) # None => Device(t) = lastSeen[t]
        /\ (last.event = "ack" /\ DismissesOf(out, t) # <<>>) =>
                /\ last.old[t] = last.reminder_id
                /\ lastSeen[t] = last.reminder_id
                /\ hist[t].send = last.reminder_id
        /\ (/\ last.event = "ack"
            /\ t \in last.superseded
            /\ last.old[t] \notin {None, last.reminder_id}
            /\ "action" \notin hist[t].dismissed)
                => /\ Device(t) = last.old[t]
                   /\ DismissesOf(out, t) = <<>>

\* The acknowledgment of id 5 has returned 200 after the snapshot that
\* replaced 5 by 7, and the device shows 7.
C33_Witness ==
    /\ last.event = "ack"
    /\ last.outcome = [kind |-> "status", status |-> 200]
    /\ last.reminder_id = 5
    /\ last.superseded = {RTYPES[1]}
    /\ lastSeen[RTYPES[1]] = 7
    /\ Device(RTYPES[1]) = 7
    /\ out = <<>>

\* C34: an acknowledgment that ends with 200 or 409 for an id whose earlier
\* acknowledgment failed does what a first one does: it dismisses the
\* notification of the first type for which the last snapshot carries the
\* id, LastSeen being still what that snapshot wrote, and returns.
C34_RetryAfterFailure ==
    (/\ last.event = "ack"
     /\ last.outcome.kind = "status"
     /\ last.outcome.status \in {200, 409}
     /\ last.reminder_id \in failed) =>
        /\ lastSeen = latest.ids
        /\ last.ended = "returned"
        /\ out = IF latest.ids[RTYPES[1]] = last.reminder_id
                 THEN <<[message |-> "clear_notification", tag |-> <<"khealth-", RTYPES[1]>>]>>
                 ELSE IF latest.ids[RTYPES[2]] = last.reminder_id
                 THEN <<[message |-> "clear_notification", tag |-> <<"khealth-", RTYPES[2]>>]>>
                 ELSE <<>>

\* The acknowledgment of id 7, notified for the second type, had failed; the
\* button was tapped again, and the acknowledgment has returned 200.
C34_Witness ==
    /\ last.event = "ack"
    /\ last.outcome = [kind |-> "status", status |-> 200]
    /\ last.reminder_id = 7
    /\ 7 \in failed
    /\ lastSeen = [t \in Types |-> IF t = RTYPES[2] THEN 7 ELSE 5]
    /\ Len(out) = 1
    /\ IsDismissOf(out[1], RTYPES[2])

\* C35: the end of an acknowledgment issues one call at most, a Dismiss or the
\* error notification: the error notification when the outcome is not 200 or
\* 409, and otherwise the Dismiss of one type, the first of movement and
\* hydration whose LastSeen is the id, if there is one.
C35_ExclusiveOutcomes ==
    last.event = "ack" =>
        /\ Len(out) <= 1
        /\ Count(out, IsDismiss) + Count(out, IsError) = Len(out)
        /\ Count(out, IsError) = 1 <=> ~AckConclusive
        /\ Count(out, IsDismiss) = 1 =>
                /\ AckConclusive
                /\ \E t \in Types : last.old[t] = last.reminder_id
        /\ (AckConclusive /\ \A t \in Types : last.old[t] = last.reminder_id) =>
                out = <<[message |-> "clear_notification", tag |-> <<"khealth-", "movement">>]>>

\* Both types were notified of id 7 and the acknowledgment of 7 has ended
\* with 200: one Dismiss, for movement.
C35_Witness ==
    /\ last.event = "ack"
    /\ last.outcome = [kind |-> "status", status |-> 200]
    /\ last.reminder_id = 7
    /\ last.old = [t \in Types |-> 7]
    /\ Len(out) = 1
    /\ IsDismissOf(out[1], "movement")

\* C36: a Dismiss is issued for a type, by the reconciliation of a snapshot or
\* by an acknowledgment, only after a Send for the type: while no Send has
\* been issued for a type, no Dismiss is or has been issued for it.
C36_DismissFollowsSend ==
    \A t \in Types :
        /\ DismissesOf(out, t) # <<>> =>
                /\ hist[t].send # None
                /\ last.old[t] # None
        /\ hist[t].send = None =>
                /\ hist[t].dismissed = {}
                /\ lastSeen[t] = None

\* The notification of id 5 was sent, and is dismissed both ways.
C36_Witness ==
    /\ hist[RTYPES[1]] = [send |-> 5, dismissed |-> {"action", "snapshot"}]
    /\ hist[RTYPES[2]] = [send |-> None, dismissed |-> {}]
    /\ DismissesOf(out, RTYPES[1]) # <<>>

\* The handler is over with one of its three outcomes: the Dismiss issued, a
\* conclusive outcome with nothing to dismiss, or the error notification
\* issued.
FinalOutcomes ==
    {o \in {"dismissed", "no_op", "error_notified"} :
        \/ o = "dismissed" /\ AckConclusive /\ Len(out) = 1 /\ IsDismiss(out[1])
        \/ o = "no_op" /\ AckConclusive /\ out = <<>>
        \/ o = "error_notified" /\ ~AckConclusive /\ Len(out) = 1 /\ IsError(out[1])}

\* C37: every POST ending, an invocation of the handler in flight for id n
\* leads to the end of an invocation for n with exactly one of the three
\* outcomes: none stays in flight for ever.
C37_EveryActionCompletes ==
    \A n \in TokenIds :
        (acks # <<>> /\ acks[1] = n)
            ~> (/\ last.event = "ack"
                /\ last.reminder_id = n
                /\ last.in_flight = Len(acks) + 1
                /\ Cardinality(FinalOutcomes) = 1)

\* The acknowledgment of an id no type is notified of has returned 409:
\* nothing to dismiss, nothing in flight.
C37_Witness ==
    /\ last.event = "ack"
    /\ last.reminder_id = 42
    /\ last.outcome = [kind |-> "status", status |-> 409]
    /\ FinalOutcomes = {"no_op"}
    /\ acks = <<>>

\* C38: a snapshot whose active reminders have no entry for a type, or are
\* missing altogether, is reconciled like one whose entry is None: the
\* listener returns with LastSeen of the type None, having issued one Dismiss
\* for it if LastSeen held an id and no call for it otherwise.
C38_MissingEntryIsAbsent ==
    \A t \in Types :
        (last.event = "snapshot" /\ t \notin DOMAIN last.active) =>
            /\ lastSeen[t] = None
            /\ last.old[t] # None =>
                    Tagged(out, t)
                        = <<[message |-> "clear_notification", tag |-> <<"khealth-", t>>]>>
            /\ last.old[t] = None => Tagged(out, t) = <<>>
            /\ \A active \in ActiveDicts :
                    (/\ DOMAIN active = Types
                     /\ \A u \in Types : active[u] = ActiveGet(last.active, u))
                        => UpdateLoop(active, last.old, 1)
                                = [created |-> out, last_seen |-> lastSeen]

\* The data has no active reminders at all while both types are notified:
\* both notifications are dismissed.
C38_Witness ==
    /\ last.event = "snapshot"
    /\ DOMAIN last.active = {}
    /\ last.old = [t \in Types |-> IF t = RTYPES[1] THEN 5 ELSE 7]
    /\ lastSeen = [t \in Types |-> None]
    /\ Len(out) = 2
    /\ IsDismissOf(out[1], RTYPES[1])
    /\ IsDismissOf(out[2], RTYPES[2])

====
